---- MODULE Spec2Model ----
(***************************************************************************)
(* Bulk Image Resizer (main.py): the Worker thread that resizes the images *)
(* of a folder and the MainWindow that validates the form, starts the      *)
(* Worker and receives its progress / log / finished signals.              *)
(***************************************************************************)
EXTENDS Integers, Sequences, FiniteSets, TLC

(***************************************************************************)
(* Bounds of the model.                                                    *)
(***************************************************************************)
MaxFiles == 2       \* entries of the source folder
MaxWorkers == 2     \* Worker objects alive at the same time
MaxLog == 3         \* log length up to which a rejected click is explored
MaxTotal == 50      \* files of a run in the progress specification
MaxDim == 22        \* widths, heights and target sizes in the resize specification

(***************************************************************************)
(* Python float arithmetic: IEEE-754 binary64, round to nearest even.      *)
(* A positive float is [hi, mid, lo, e]: its significand of MantBits bits  *)
(* is hi * Limb^2 + mid * Limb + lo, in limbs of 18 bits below a top limb  *)
(* of MantBits - 36 bits (Top <= hi < 2 * Top), and its value is           *)
(* significand * 2^e.  The operands of the program's divisions and         *)
(* products are integers below 2^12, which are floats exactly.             *)
(***************************************************************************)
MantBits == 53

Float == [hi : Nat, mid : Nat, lo : Nat, e : Int]
Scale == [v : Nat, k : Nat]

Pow2[n \in Nat] == IF n = 0 THEN 1 ELSE 2 * Pow2[n - 1]

Limb == Pow2[18]
Top == Pow2[MantBits - 37]

\* the least a * 2^k that is >= b
ScaleUp[a \in Nat, b \in Nat, k \in Nat] ==
    IF a >= b THEN [v |-> a, k |-> k] ELSE ScaleUp[2 * a, b, k + 1]

\* the greatest b * 2^j that is <= a
ScaleDown[a \in Nat, b \in Nat, j \in Nat] ==
    IF 2 * b > a THEN [v |-> b, k |-> j] ELSE ScaleDown[a, 2 * b, j + 1]

\* significand + 1; a carry out of the top limb renormalises, exponent + 1
Inc[f \in Float] ==
    IF f.lo + 1 < Limb THEN [f EXCEPT !.lo = f.lo + 1]
    ELSE IF f.mid + 1 < Limb THEN [f EXCEPT !.lo = 0, !.mid = f.mid + 1]
    ELSE IF f.hi + 1 < 2 * Top THEN [f EXCEPT !.lo = 0, !.mid = 0, !.hi = f.hi + 1]
    ELSE [hi |-> Top, mid |-> 0, lo |-> 0, e |-> f.e + 1]

\* round to nearest, ties to even: f is the result cut off, rest / unit the part
\* cut off, in halves of the last place
Round[f \in Float, rest \in Nat, unit \in Nat] ==
    IF rest > unit \/ (rest = unit /\ f.lo % 2 = 1) THEN Inc[f] ELSE f

\* the limbs of n / d, top limb first, for d <= n < 2 * d
DivLo[hi \in Nat, mid \in Nat, r \in Nat, d \in Nat, e \in Int] ==
    Round[[hi |-> hi, mid |-> mid, lo |-> (r * Limb) \div d, e |-> e], 2 * ((r * Limb) % d), d]

DivMid[hi \in Nat, r \in Nat, d \in Nat, e \in Int] ==
    DivLo[hi, (r * Limb) \div d, (r * Limb) % d, d, e]

DivHi[n \in Nat, d \in Nat, e \in Int] == DivMid[(n * Top) \div d, (n * Top) % d, d, e]

DivScaled[up \in Scale, dn \in Scale] == DivHi[up.v, dn.v, dn.k - up.k - (MantBits - 1)]

DivFrom[up \in Scale, b \in Nat] == DivScaled[up, ScaleDown[up.v, b, 0]]

\* a / b for positive integers a, b: the correctly rounded quotient
FDiv[a \in Nat, b \in Nat] == DivFrom[ScaleUp[a, b, 0], b]

\* the product p2 * Limb^2 + l1 * Limb + l0 has s = 2^d bits too many
MulShift[p2 \in Nat, l1 \in Nat, l0 \in Nat, e \in Int, s \in Nat] ==
    Round[[hi |-> p2 \div s, mid |-> (p2 % s) * (Limb \div s) + l1 \div s,
           lo |-> (l1 % s) * (Limb \div s) + l0 \div s, e |-> e],
          2 * (l0 % s), s]

ExtraBits[p2 \in Nat] == CHOOSE k \in 0..13 : Pow2[k] * Top <= p2 /\ p2 < 2 * Pow2[k] * Top

MulBy[p2 \in Nat, l1 \in Nat, l0 \in Nat, e \in Int, d \in Nat] ==
    MulShift[p2, l1, l0, e + d, Pow2[d]]

MulHi[p2 \in Nat, l1 \in Nat, l0 \in Nat, e \in Int] == MulBy[p2, l1, l0, e, ExtraBits[p2]]

MulMid[x \in Float, n \in Nat, p1 \in Nat, l0 \in Nat] ==
    MulHi[x.hi * n + p1 \div Limb, p1 % Limb, l0, x.e]

MulLo[x \in Float, n \in Nat, p0 \in Nat] ==
    MulMid[x, n, x.mid * n + p0 \div Limb, p0 % Limb]

\* x * n for a float x and a positive integer n: the correctly rounded product
FMul[x \in Float, n \in Nat] == MulLo[x, n, x.lo * n]

TruncBits[x \in Float, keep \in Int] ==
    IF keep <= 0 THEN 0
    ELSE IF keep <= MantBits - 36 THEN x.hi \div Pow2[MantBits - 36 - keep]
    ELSE IF keep <= MantBits - 18
    THEN x.hi * Pow2[keep - (MantBits - 36)] + x.mid \div Pow2[MantBits - 18 - keep]
    ELSE x.hi * Pow2[keep - (MantBits - 36)] + x.mid * Pow2[keep - (MantBits - 18)]
         + x.lo \div Pow2[MantBits - keep]

\* int(x): truncation towards zero; MantBits + x.e bits are left of the point
Trunc[x \in Float] ==
    IF x.e >= 0 THEN (x.hi * Limb * Limb + x.mid * Limb + x.lo) * Pow2[x.e]
    ELSE TruncBits[x, MantBits + x.e]

(***************************************************************************)
(* Worker.run, line 98: int((i + 1) / total * 100), with k = i + 1.        *)
(***************************************************************************)
Percent(k, total) == Trunc[FMul[FDiv[k, total], 100]]

(***************************************************************************)
(* Worker.run, lines 60-68: the size of the new image.                     *)
(***************************************************************************)
Scaled(width, height, ratio) == <<Trunc[FMul[ratio, width]], Trunc[FMul[ratio, height]]>>

\* a variant that takes the ratio from the width whichever side is longest
NewSizeByWidth(width, height, target_size) ==
    IF (IF width >= height THEN width ELSE height) <= target_size
    THEN <<width, height>>
    ELSE Scaled(width, height, FDiv[target_size, width])

NewSize(width, height, target_size) ==
    IF (IF width >= height THEN width ELSE height) <= target_size
    THEN <<width, height>>
    ELSE Scaled(width, height, FDiv[target_size, IF width >= height THEN width ELSE height])

(***************************************************************************)
(* Files.  A name is [stem, ext], ext being Path.suffix; a file's content  *)
(* is what Image.open makes of it: ok = FALSE is a file that cannot be     *)
(* decoded, otherwise mode and size are those of the image.                *)
(***************************************************************************)
Name(stem, ext) == [stem |-> stem, ext |-> ext]
NoName == Name("", "")
Image(mode, w, h) == [ok |-> TRUE, mode |-> mode, w |-> w, h |-> h]
Corrupt == [ok |-> FALSE, mode |-> "none", w |-> 0, h |-> 0]

Modes == {"RGB", "L", "RGBA", "P", "LA", "CMYK"}

\* the entries a source folder of the model is made of
Catalogue ==
    { [name |-> Name("a", ".jpg"),  img |-> Image("RGB", 4, 2)],
      [name |-> Name("b", ".jpeg"), img |-> Image("RGBA", 2, 2)],
      [name |-> Name("c", ".png"),  img |-> Image("LA", 3, 3)],
      [name |-> Name("d", ".jpg"),  img |-> Corrupt],
      [name |-> Name("e", ".txt"),  img |-> Corrupt],
      [name |-> Name("f", ".JPG"),  img |-> Image("P", 2, 2)] }

Folder(entries) ==
    [n \in {x.name : x \in entries} |-> (CHOOSE x \in entries : x.name = n).img]

Folders == {Folder(es) : es \in {s \in SUBSET Catalogue : Cardinality(s) <= MaxFiles}}

EmptyFolder == Folder({})

\* str.lower() of a suffix
Lower(ext) ==
    CASE ext = ".JPG" -> ".jpg"
      [] ext = ".JPEG" -> ".jpeg"
      [] ext = ".PNG" -> ".png"
      [] OTHER -> ext

(***************************************************************************)
(* Text of the size and quality fields: a sequence of characters, "sup2"   *)
(* standing for the character SUPERSCRIPT TWO.                             *)
(***************************************************************************)
DecimalChars == {"0", "1", "2", "3", "4", "5", "6", "7", "8", "9"}
DigitChars == DecimalChars \cup {"sup2"}

RECURSIVE LStrip(_)
LStrip(t) == IF t # <<>> /\ Head(t) = " " THEN LStrip(Tail(t)) ELSE t

RECURSIVE RStrip(_)
RStrip(t) == IF t # <<>> /\ t[Len(t)] = " " THEN RStrip(SubSeq(t, 1, Len(t) - 1)) ELSE t

\* str.strip()
Strip(t) == RStrip(LStrip(t))

\* str.isdigit(): not empty, every character a digit (superscripts included)
IsDigit(t) == t # <<>> /\ \A i \in 1..Len(t) : t[i] \in DigitChars

DigitValue(c) ==
    CASE c = "0" -> 0 [] c = "1" -> 1 [] c = "2" -> 2 [] c = "3" -> 3 [] c = "4" -> 4
      [] c = "5" -> 5 [] c = "6" -> 6 [] c = "7" -> 7 [] c = "8" -> 8 [] c = "9" -> 9

\* int(t) raises ValueError: a character that is no decimal digit
IntRaises(t) == t = <<>> \/ \E i \in 1..Len(t) : t[i] \notin DecimalChars

RECURSIVE IntAcc(_, _, _)
IntAcc(t, i, acc) == IF i > Len(t) THEN acc ELSE IntAcc(t, i + 1, 10 * acc + DigitValue(t[i]))

\* int(t) of a text of decimal digits
IntOf(t) == IntAcc(t, 1, 0)

(***************************************************************************)
(* Log lines and signals.                                                  *)
(***************************************************************************)
Line(kind, name) == [kind |-> kind, name |-> name]
NoLine == Line("", NoName)

LogEvent(w, line) == [sig |-> "log", from |-> w, line |-> line, value |-> 0]
ProgressEvent(w, v) == [sig |-> "progress", from |-> w, line |-> NoLine, value |-> v]
FinishedEvent(w) == [sig |-> "finished", from |-> w, line |-> NoLine, value |-> 0]

(***************************************************************************)
(* The image library's encoders: the modes each one can write.             *)
(***************************************************************************)
JpegModes == {"1", "L", "RGB", "RGBX", "CMYK", "YCbCr"}
PngModes == {"1", "L", "LA", "I", "I;16", "P", "RGB", "RGBA"}

NoSave ==
    [format |-> "none", mode |-> "none", size |-> <<0, 0>>, has_quality |-> FALSE,
     quality |-> 0, optimize |-> FALSE, flattened |-> FALSE]

(***************************************************************************)
(* Worker.run, lines 55-92: what the body of the inner try does with one   *)
(* file.  error: an exception left the body; save: the call of             *)
(* new_img.save (NoSave when the body never got there); out: the content   *)
(* of the file written when the call succeeded.                            *)
(***************************************************************************)
Encode(img, ext, new_size, jpeg_quality) ==
    IF new_size[1] < 1 \/ new_size[2] < 1
    THEN [error |-> TRUE, save |-> NoSave, out |-> Corrupt]
    ELSE IF ext \in {".jpg", ".jpeg"}
    THEN LET flat == img.mode \in {"RGBA", "P"}
             mode == IF flat THEN "RGB" ELSE img.mode
         IN  [error |-> mode \notin JpegModes,
              save  |-> [format |-> "JPEG", mode |-> mode, size |-> new_size,
                         has_quality |-> TRUE, quality |-> jpeg_quality,
                         optimize |-> TRUE, flattened |-> flat],
              out   |-> Image(mode, new_size[1], new_size[2])]
    ELSE [error |-> img.mode \notin PngModes,
          save  |-> [format |-> "PNG", mode |-> img.mode, size |-> new_size,
                     has_quality |-> FALSE, quality |-> 0,
                     optimize |-> TRUE, flattened |-> FALSE],
          out   |-> Image(img.mode, new_size[1], new_size[2])]

ProcessImage(img, name, target_size, jpeg_quality) ==
    IF ~img.ok
    THEN [error |-> TRUE, save |-> NoSave, out |-> Corrupt]
    ELSE Encode(img, Lower(name.ext), NewSize(img.w, img.h, target_size), jpeg_quality)

(***************************************************************************)
(* State.                                                                  *)
(*   fs              directory |-> (name |-> content)                      *)
(*   case_sensitive  whether Path.glob matches names case-sensitively      *)
(*                   (it does on POSIX, it does not on Windows)            *)
(*   workers         the Worker objects: slot |-> fields of the object and *)
(*                   position of its run(); emitted, saves and failed      *)
(*                   record what the run has done so far                   *)
(*   queue           signals emitted by the worker threads and not yet     *)
(*                   delivered to the slots in the GUI thread              *)
(*   start_btn       start_btn.isEnabled()                                 *)
(*   progress_bar    progress_bar.value()                                  *)
(*   log_text        the lines of log_text                                 *)
(*   slot_raised     an exception has left start_conversion                *)
(*   probe           argument and result of a function applied on its own  *)
(***************************************************************************)
VARIABLES fs, case_sensitive, workers, queue, start_btn, progress_bar, log_text,
          slot_raised, probe

vars == <<fs, case_sensitive, workers, queue, start_btn, progress_bar, log_text,
          slot_raised, probe>>

gui == <<start_btn, progress_bar, log_text, slot_raised>>

Slots == 1..MaxWorkers

IdleWorker ==
    [pc |-> "idle", input_dir |-> "", output_dir |-> "", target_size |-> 0,
     jpeg_quality |-> 0, overwrite |-> FALSE, image_files |-> <<>>, total |-> -1,
     i |-> 0, emitted |-> <<>>, saves |-> <<>>, failed |-> {}]

NoProbe == [op |-> "none"]

\* the form as the user has filled it in when START is clicked
Form(input, output, size, quality, overwrite) ==
    [input |-> input, output |-> output, size |-> size, quality |-> quality,
     overwrite |-> overwrite]

Forms ==
    { Form("src", "dst", <<"2">>, <<"8", "0">>, FALSE),
      Form("src", "", <<"2">>, <<"8", "0">>, TRUE) }

DirTexts == {"", "nodir", "src", "dst"}
SizeTexts == { <<>>, <<"0">>, <<"x">>, <<"-", "1">>, <<"sup2">>, <<"2">>, <<" ", "2", " ">> }
QualityTexts == { <<>>, <<"0">>, <<"9", "6">>, <<"x">>, <<"sup2">>, <<"8", "0">> }

AllForms ==
    { Form(i, o, s, q, ov) : i \in {"", "nodir", "src"}, o \in DirTexts, s \in SizeTexts,
                             q \in QualityTexts, ov \in BOOLEAN }

Init ==
    /\ fs \in {[d \in {"src", "dst"} |-> IF d = "src" THEN f ELSE EmptyFolder] : f \in Folders}
    /\ case_sensitive \in IF \E n \in DOMAIN fs["src"] : Lower(n.ext) # n.ext
                           THEN BOOLEAN ELSE {TRUE}
    /\ workers = [w \in Slots |-> IdleWorker]
    /\ queue = <<>>
    /\ start_btn = TRUE
    /\ progress_bar = 0
    /\ log_text = <<>>
    /\ slot_raised = FALSE
    /\ probe = NoProbe

(***************************************************************************)
(* MainWindow.start_conversion, lines 202-222: the checks, in order.       *)
(* "ValueError": int() raises on a text that isdigit() accepts.            *)
(***************************************************************************)
Validate(form) ==
    LET size_text == Strip(form.size)
        quality_text == Strip(form.quality)
    IN  IF form.input = "" \/ form.input \notin DOMAIN fs THEN "ErrSource"
        ELSE IF ~form.overwrite /\ (form.output = "" \/ form.output \notin DOMAIN fs)
        THEN "ErrDest"
        ELSE IF ~IsDigit(size_text) THEN "ErrSize"
        ELSE IF IntRaises(size_text) THEN "ValueError"
        ELSE IF IntOf(size_text) <= 0 THEN "ErrSize"
        ELSE IF ~IsDigit(quality_text) THEN "ErrQuality"
        ELSE IF IntRaises(quality_text) THEN "ValueError"
        ELSE IF ~(1 <= IntOf(quality_text) /\ IntOf(quality_text) <= 95) THEN "ErrQuality"
        ELSE "ok"

Pending(w) == \E k \in 1..Len(queue) : queue[k].from = w

\* a Worker object that has finished and has no signal in flight is garbage once
\* self.worker is assigned anew
Collected == [w \in Slots |-> IF workers[w].pc = "done" /\ ~Pending(w)
                               THEN IdleWorker ELSE workers[w]]

(***************************************************************************)
(* MainWindow.start_conversion, lines 201-235.  The button delivers        *)
(* clicked only while it is enabled.                                       *)
(***************************************************************************)
StartConversion(form) ==
    /\ start_btn
    /\ LET v == Validate(form)
       IN  IF v = "ValueError"
           THEN /\ slot_raised' = TRUE
                /\ UNCHANGED <<fs, case_sensitive, workers, queue, start_btn, progress_bar,
                               log_text, probe>>
           ELSE IF v # "ok"
           THEN /\ Len(log_text) < MaxLog
                /\ log_text' = Append(log_text, Line(v, NoName))
                /\ UNCHANGED <<fs, case_sensitive, workers, queue, start_btn, progress_bar,
                               slot_raised, probe>>
           ELSE /\ \E w \in Slots : Collected[w].pc = "idle"
                /\ LET w == CHOOSE x \in Slots :
                                /\ Collected[x].pc = "idle"
                                /\ \A y \in Slots : Collected[y].pc = "idle" => x <= y
                   IN  workers' = [Collected EXCEPT ![w] =
                                     [IdleWorker EXCEPT !.pc = "start",
                                                        !.input_dir = form.input,
                                                        !.output_dir = form.output,
                                                        !.target_size = IntOf(Strip(form.size)),
                                                        !.jpeg_quality = IntOf(Strip(form.quality)),
                                                        !.overwrite = form.overwrite]]
                /\ start_btn' = FALSE
                /\ progress_bar' = 0
                /\ log_text' = <<>>
                /\ UNCHANGED <<fs, case_sensitive, queue, slot_raised, probe>>

(***************************************************************************)
(* Worker.run.                                                             *)
(***************************************************************************)
EmitTo(w, ev, pc) ==
    /\ queue' = Append(queue, ev)
    /\ workers' = [workers EXCEPT ![w].emitted = Append(@, ev), ![w].pc = pc]

\* Path.glob(pattern): the names of dir that match "*" + ext
Glob(dir, ext) ==
    {n \in DOMAIN fs[dir] : IF case_sensitive THEN n.ext = ext ELSE Lower(n.ext) = ext}

\* the orders in which a directory scan can yield the names of S
Orders(S) == {s \in [1..Cardinality(S) -> S] : \A x \in S : \E k \in 1..Cardinality(S) : s[k] = x}

\* lines 37-47; failed: an exception outside the loop (the directory cannot be read)
WorkerEnumerate(w) ==
    /\ workers[w].pc = "start"
    /\ LET me == workers[w]
           mkdir == ~me.overwrite /\ me.output_dir \notin DOMAIN fs
       IN  \E failed \in BOOLEAN :
             IF failed
             THEN /\ workers' = [workers EXCEPT ![w].pc = "critical"]
                  /\ UNCHANGED fs
             ELSE /\ fs' = IF mkdir
                           THEN [d \in DOMAIN fs \cup {me.output_dir} |->
                                    IF d \in DOMAIN fs THEN fs[d] ELSE EmptyFolder]
                           ELSE fs
                  /\ \E jpg \in Orders(Glob(me.input_dir, ".jpg")),
                        jpeg \in Orders(Glob(me.input_dir, ".jpeg")),
                        png \in Orders(Glob(me.input_dir, ".png")) :
                       LET image_files == jpg \o jpeg \o png
                       IN  workers' = [workers EXCEPT
                                         ![w].image_files = image_files,
                                         ![w].total = Len(image_files),
                                         ![w].pc = IF Len(image_files) = 0
                                                   THEN "noimages" ELSE "loop"]
    /\ UNCHANGED <<case_sensitive, queue, gui, probe>>

\* a variant in which the empty run goes on to the end of the try block
WorkerNoImagesFallsThrough(w) ==
    /\ workers[w].pc = "noimages"
    /\ EmitTo(w, LogEvent(w, Line("NoImages", NoName)), "completed")
    /\ UNCHANGED <<fs, case_sensitive, gui, probe>>

\* line 49
WorkerNoImages(w) ==
    /\ workers[w].pc = "noimages"
    /\ EmitTo(w, LogEvent(w, Line("NoImages", NoName)), "return")
    /\ UNCHANGED <<fs, case_sensitive, gui, probe>>

\* lines 50-51: finished.emit(), then return, which enters the finally clause
WorkerReturn(w) ==
    /\ workers[w].pc = "return"
    /\ EmitTo(w, FinishedEvent(w), "finally")
    /\ UNCHANGED <<fs, case_sensitive, gui, probe>>

\* the content of the file at img_path, as Image.open finds it
Open(dir, name) ==
    IF dir \in DOMAIN fs /\ name \in DOMAIN fs[dir] THEN fs[dir][name] ELSE Corrupt

\* a variant without the inner try: a file that fails ends the loop
FileDoneHalts(w, name, save_dir, r) ==
    IF r.error
    THEN /\ queue' = Append(queue, LogEvent(w, Line("Error", name)))
         /\ workers' = [workers EXCEPT
                          ![w].emitted = Append(@, LogEvent(w, Line("Error", name))),
                          ![w].failed = @ \cup {workers[w].i + 1},
                          ![w].i = @ + 1,
                          ![w].pc = "finally"]
         /\ UNCHANGED fs
    ELSE /\ fs' = [fs EXCEPT ![save_dir] =
                     [n \in DOMAIN fs[save_dir] \cup {name} |->
                        IF n = name THEN r.out ELSE fs[save_dir][n]]]
         /\ queue' = Append(queue, LogEvent(w, Line("Processed", name)))
         /\ workers' = [workers EXCEPT
                          ![w].emitted = Append(@, LogEvent(w, Line("Processed", name))),
                          ![w].saves = Append(@, [dir |-> save_dir, name |-> name,
                                                  save |-> r.save, ok |-> TRUE]),
                          ![w].pc = "progress"]

\* lines 75-96: r is what the body of the inner try did with the file
FileDone(w, name, save_dir, r) ==
    IF r.error
    THEN /\ queue' = Append(queue, LogEvent(w, Line("Error", name)))
         /\ workers' = [workers EXCEPT
                          ![w].emitted = Append(@, LogEvent(w, Line("Error", name))),
                          ![w].saves = IF r.save = NoSave THEN @
                                       ELSE Append(@, [dir |-> save_dir, name |-> name,
                                                       save |-> r.save, ok |-> FALSE]),
                          ![w].failed = @ \cup {workers[w].i + 1},
                          ![w].pc = "progress"]
         /\ UNCHANGED fs
    ELSE /\ fs' = [fs EXCEPT ![save_dir] =
                     [n \in DOMAIN fs[save_dir] \cup {name} |->
                        IF n = name THEN r.out ELSE fs[save_dir][n]]]
         /\ queue' = Append(queue, LogEvent(w, Line("Processed", name)))
         /\ workers' = [workers EXCEPT
                          ![w].emitted = Append(@, LogEvent(w, Line("Processed", name))),
                          ![w].saves = Append(@, [dir |-> save_dir, name |-> name,
                                                  save |-> r.save, ok |-> TRUE]),
                          ![w].pc = "progress"]

\* lines 53-96: one pass of the loop body up to the log line of the file
WorkerProcessFile(w) ==
    /\ workers[w].pc = "loop"
    /\ FileDone(w, workers[w].image_files[workers[w].i + 1],
                IF workers[w].overwrite THEN workers[w].input_dir ELSE workers[w].output_dir,
                ProcessImage(Open(workers[w].input_dir, workers[w].image_files[workers[w].i + 1]),
                             workers[w].image_files[workers[w].i + 1],
                             workers[w].target_size, workers[w].jpeg_quality))
    /\ UNCHANGED <<case_sensitive, gui, probe>>

\* line 98, and the loop's next round or its end
WorkerProgress(w) ==
    /\ workers[w].pc = "progress"
    /\ LET me == workers[w]
           ev == ProgressEvent(w, Percent(me.i + 1, me.total))
       IN  /\ queue' = Append(queue, ev)
           /\ workers' = [workers EXCEPT
                            ![w].emitted = Append(@, ev),
                            ![w].i = me.i + 1,
                            ![w].pc = IF me.i + 1 = me.total THEN "completed" ELSE "loop"]
    /\ UNCHANGED <<fs, case_sensitive, gui, probe>>

\* line 100
WorkerCompleted(w) ==
    /\ workers[w].pc = "completed"
    /\ EmitTo(w, LogEvent(w, Line("Completed", NoName)), "finally")
    /\ UNCHANGED <<fs, case_sensitive, gui, probe>>

\* lines 101-102
WorkerCritical(w) ==
    /\ workers[w].pc = "critical"
    /\ EmitTo(w, LogEvent(w, Line("Critical", NoName)), "finally")
    /\ UNCHANGED <<fs, case_sensitive, gui, probe>>

\* a variant without the finally clause: run() ends without finished.emit()
WorkerEndsSilently(w) ==
    /\ workers[w].pc = "finally"
    /\ workers' = [workers EXCEPT ![w].pc = "done"]
    /\ UNCHANGED <<fs, case_sensitive, gui, queue, probe>>

\* lines 103-104: the last statement of run()
WorkerFinally(w) ==
    /\ workers[w].pc = "finally"
    /\ EmitTo(w, FinishedEvent(w), "done")
    /\ UNCHANGED <<fs, case_sensitive, gui, probe>>

WorkerStep(w) ==
    \/ WorkerEnumerate(w)
    \/ WorkerNoImages(w)
    \/ WorkerReturn(w)
    \/ WorkerProcessFile(w)
    \/ WorkerProgress(w)
    \/ WorkerCompleted(w)
    \/ WorkerCritical(w)
    \/ WorkerFinally(w)

(***************************************************************************)
(* The GUI thread delivers the queued signals in the order of their        *)
(* emission (the connections of lines 232-234).                            *)
(***************************************************************************)
\* progress_bar.setValue
SetProgress ==
    /\ queue # <<>> /\ Head(queue).sig = "progress"
    /\ progress_bar' = Head(queue).value
    /\ queue' = Tail(queue)
    /\ UNCHANGED <<fs, case_sensitive, workers, start_btn, log_text, slot_raised, probe>>

\* log_text.append
LogAppend ==
    /\ queue # <<>> /\ Head(queue).sig = "log"
    /\ log_text' = Append(log_text, Head(queue).line)
    /\ queue' = Tail(queue)
    /\ UNCHANGED <<fs, case_sensitive, workers, start_btn, progress_bar, slot_raised, probe>>

\* MainWindow.on_finished, lines 237-238
OnFinished ==
    /\ queue # <<>> /\ Head(queue).sig = "finished"
    /\ start_btn' = TRUE
    /\ queue' = Tail(queue)
    /\ UNCHANGED <<fs, case_sensitive, workers, progress_bar, log_text, slot_raised, probe>>

GuiDispatch == SetProgress \/ LogAppend \/ OnFinished

Next ==
    \/ \E form \in Forms : StartConversion(form)
    \/ \E w \in Slots : WorkerStep(w)
    \/ GuiDispatch

Spec == Init /\ [][Next]_vars

(***************************************************************************)
(* The same window under fair scheduling: every worker thread that can     *)
(* take a step eventually takes it, and the GUI thread's event loop        *)
(* eventually delivers a queued signal.  The user owes no click.           *)
(***************************************************************************)
FairForms == { Form("src", "dst", <<"2">>, <<"8", "0">>, FALSE) }

NextFair ==
    \/ \E form \in FairForms : StartConversion(form)
    \/ \E w \in Slots : WorkerStep(w)
    \/ GuiDispatch

FairSpec ==
    /\ Init /\ [][NextFair]_vars
    /\ \A w \in Slots : WF_vars(WorkerStep(w))
    /\ WF_vars(GuiDispatch)

(***************************************************************************)
(* The window with every way of filling in the form, over a folder of two  *)
(* images.  No run finds the folder without images, so lines 49-51 are     *)
(* never reached and their actions are left out of the next-state relation.*)
(***************************************************************************)
InitForm ==
    /\ fs = [d \in {"src", "dst"} |->
               IF d = "src" THEN Folder({x \in Catalogue : x.name.stem \in {"a", "d"}})
               ELSE EmptyFolder]
    /\ case_sensitive = TRUE
    /\ workers = [w \in Slots |-> IdleWorker]
    /\ queue = <<>>
    /\ start_btn = TRUE
    /\ progress_bar = 0
    /\ log_text = <<>>
    /\ slot_raised = FALSE
    /\ probe = NoProbe

NextForm ==
    \/ \E form \in AllForms : StartConversion(form)
    \/ \E w \in Slots : \/ WorkerEnumerate(w)
                        \/ WorkerProcessFile(w)
                        \/ WorkerProgress(w)
                        \/ WorkerCompleted(w)
                        \/ WorkerCritical(w)
                        \/ WorkerFinally(w)
    \/ GuiDispatch

SpecForm == InitForm /\ [][NextForm]_vars

(***************************************************************************)
(* Functions of Worker.run applied on their own.  The window stays as      *)
(* constructed; probe holds the arguments and the result.                  *)
(***************************************************************************)
Constructed ==
    /\ fs = [d \in {"src", "dst"} |-> EmptyFolder]
    /\ case_sensitive = TRUE
    /\ workers = [w \in Slots |-> IdleWorker]
    /\ queue = <<>>
    /\ start_btn = TRUE
    /\ progress_bar = 0
    /\ log_text = <<>>
    /\ slot_raised = FALSE

window == <<fs, case_sensitive, workers, queue, start_btn, progress_bar, log_text, slot_raised>>

\* lines 60-68 for every width, height and target size up to MaxDim
InitResize ==
    /\ Constructed
    /\ probe \in {[op |-> "resize", width |-> w, height |-> h, target_size |-> t,
                   done |-> FALSE, new_size |-> <<0, 0>>] :
                    w \in 1..MaxDim, h \in 1..MaxDim, t \in 1..MaxDim}

ApplyResize ==
    /\ probe.op = "resize" /\ ~probe.done
    /\ probe' = [probe EXCEPT !.done = TRUE,
                              !.new_size = NewSize(probe.width, probe.height, probe.target_size)]
    /\ UNCHANGED window

SpecResize == InitResize /\ [][ApplyResize]_vars

\* lines 55-92 for every suffix, colour mode and quality of a bounded set
Suffixes == {".jpg", ".jpeg", ".png", ".JPG"}
Qualities == {1, 80, 95}

InitSave ==
    /\ Constructed
    /\ probe \in {[op |-> "save", img |-> Image(m, 4, 2), name |-> Name("x", e),
                   target_size |-> t, jpeg_quality |-> q, done |-> FALSE,
                   result |-> [error |-> FALSE, save |-> NoSave, out |-> Corrupt]] :
                    m \in Modes, e \in Suffixes, t \in {2, 4}, q \in Qualities}

ApplySave ==
    /\ probe.op = "save" /\ ~probe.done
    /\ probe' = [probe EXCEPT !.done = TRUE,
                              !.result = ProcessImage(probe.img, probe.name,
                                                      probe.target_size, probe.jpeg_quality)]
    /\ UNCHANGED window

SpecSave == InitSave /\ [][ApplySave]_vars

\* lines 53 and 98: the progress values of a run over total files
InitProgress ==
    /\ Constructed
    /\ probe \in {[op |-> "progress", total |-> t, i |-> 0, reported |-> <<>>] :
                    t \in 1..MaxTotal}

ReportProgress ==
    /\ probe.op = "progress" /\ probe.i < probe.total
    /\ probe' = [probe EXCEPT !.i = probe.i + 1,
                              !.reported = Append(@, Percent(probe.i + 1, probe.total))]
    /\ UNCHANGED window

SpecProgress == InitProgress /\ [][ReportProgress]_vars

(***************************************************************************)
(* Properties.                                                             *)
(***************************************************************************)
Running(w) == workers[w].pc \notin {"idle", "done"}

IsFinished(ev) == ev.sig = "finished"
IsProgress(ev) == ev.sig = "progress"
IsLog(ev) == ev.sig = "log"
IsFileLine(ev) == ev.sig = "log" /\ ev.line.kind \in {"Processed", "Error"}

Finished(w) == SelectSeq(workers[w].emitted, IsFinished)
Reported(w) == SelectSeq(workers[w].emitted, IsProgress)
Logged(w) == SelectSeq(workers[w].emitted, IsLog)
FileLines(w) == SelectSeq(workers[w].emitted, IsFileLine)

ImageSuffixes == {".jpg", ".jpeg", ".png"}

\* the folder holds no file with extension .jpg, .jpeg or .png, upper case
\* counting as another extension where file names are case-sensitive
NoImageIn(dir) ==
    \A n \in DOMAIN fs[dir] :
        (IF case_sensitive THEN n.ext ELSE Lower(n.ext)) \notin ImageSuffixes

\* C1: at most one Worker is executing run() at any time.
C1_OneTaskAtATime == Cardinality({w \in Slots : Running(w)}) <= 1

\* C2: a file that fails does not halt the run.  The run has emitted one log
\* line per file handled so far, in enumeration order: "Error with <name>" for
\* a file whose processing raised (a file that cannot be decoded among them),
\* "Processed: <name>" for any other; and past the loop every enumerated file
\* has its line.
C2_FailureDoesNotHalt ==
    \A w \in Slots :
        workers[w].total >= 1 =>
            LET me == workers[w]
                lines == FileLines(w)
            IN  /\ Len(lines) = IF me.pc = "progress" THEN me.i + 1 ELSE me.i
                /\ me.failed \subseteq 1..Len(lines)
                /\ \A j \in 1..Len(lines) :
                      /\ lines[j].line =
                            Line(IF j \in me.failed THEN "Error" ELSE "Processed",
                                 me.image_files[j])
                      /\ ~Open(me.input_dir, me.image_files[j]).ok => j \in me.failed
                /\ me.pc \in {"completed", "finally", "done"} => Len(lines) = me.total
                /\ me.pc \in {"loop", "progress", "completed", "finally", "done"}

\* C2 witness: a finished run whose first file failed and whose second file was
\* processed.
C2_Witness ==
    \E w \in Slots :
        /\ workers[w].pc = "done" /\ workers[w].total >= 2
        /\ 1 \in workers[w].failed /\ 2 \notin workers[w].failed
        /\ FileLines(w)[2].line.kind = "Processed"

\* C3: the k-th progress value of a run over total files is the integer
\* percentage of k out of total; the values never decrease, stay within 0..100,
\* and the last one is 100.
C3_IntegerPercentage ==
    probe.op = "progress" =>
        /\ Len(probe.reported) = probe.i
        /\ \A k \in 1..Len(probe.reported) :
              /\ probe.reported[k] = (100 * k) \div probe.total
              /\ probe.reported[k] \in 0..100
              /\ k > 1 => probe.reported[k - 1] <= probe.reported[k]
        /\ probe.i = probe.total => probe.reported[probe.total] = 100

\* C4: every run that has been started eventually has signalled completion
\* with the start control enabled again, whatever its files did; and a run that
\* failed outside the loop has logged "Critical error" before it signals
\* completion.
C4_RunCompletes ==
    /\ \A w \in Slots :
          Running(w) ~> (/\ workers[w].pc = "done"
                         /\ Len(Finished(w)) >= 1
                         /\ ~Pending(w)
                         /\ start_btn)
    /\ [](\A w \in Slots :
             (workers[w].total = -1 /\ Len(Finished(w)) >= 1) =>
                 /\ Len(workers[w].emitted) >= 2
                 /\ workers[w].emitted[1] = LogEvent(w, Line("Critical", NoName))
                 /\ IsFinished(workers[w].emitted[2]))

\* C4 witness: a run that failed outside the loop has completed, its signals
\* are delivered and the start control is enabled.
C4_Witness ==
    \E w \in Slots :
        /\ workers[w].pc = "done" /\ workers[w].total = -1
        /\ Logged(w) = <<LogEvent(w, Line("Critical", NoName))>>
        /\ queue = <<>> /\ start_btn

\* C5: a run over a folder without image files logs the one line "No images
\* found in the source folder.", reports no progress, saves nothing, does not
\* log "Conversion completed.", and goes on to signal completion.
C5_NoImages ==
    \A w \in Slots :
        (workers[w].total >= 0 /\ NoImageIn(workers[w].input_dir)) =>
            /\ Reported(w) = <<>>
            /\ workers[w].saves = <<>>
            /\ workers[w].pc \in {"noimages", "return", "finally", "done"}
            /\ Logged(w) = IF workers[w].pc = "noimages" THEN <<>>
                           ELSE <<LogEvent(w, Line("NoImages", NoName))>>
            /\ workers[w].pc = "done" => Len(Finished(w)) >= 1

\* C5 witness: a completed run over a folder that holds a file, but no image.
C5_Witness ==
    \E w \in Slots :
        /\ workers[w].pc = "done" /\ workers[w].total = 0
        /\ DOMAIN fs[workers[w].input_dir] # {}
        /\ NoImageIn(workers[w].input_dir)
        /\ ~Pending(w) /\ log_text = <<Line("NoImages", NoName)>>

\* what the claim calls invalid input, check by check
BadSource(form) == form.input = "" \/ form.input \notin DOMAIN fs
BadDest(form) == ~form.overwrite /\ (form.output = "" \/ form.output \notin DOMAIN fs)
IsDecimal(t) == t # <<>> /\ \A k \in 1..Len(t) : t[k] \in DecimalChars
BadSize(form) == ~(IsDecimal(Strip(form.size)) /\ IntOf(Strip(form.size)) > 0)
BadQuality(form) ==
    ~(IsDecimal(Strip(form.quality)) /\ IntOf(Strip(form.quality)) \in 1..95)

FirstViolated(form) ==
    IF BadSource(form) THEN "ErrSource"
    ELSE IF BadDest(form) THEN "ErrDest"
    ELSE IF BadSize(form) THEN "ErrSize"
    ELSE IF BadQuality(form) THEN "ErrQuality"
    ELSE "none"

\* C6: start_conversion on invalid input appends exactly the error line of the
\* first violated check (source, destination, size, quality), creates no
\* Worker and leaves the start control enabled, the progress bar and the
\* earlier log lines as they were.
C6_InvalidInputRejected ==
    [][\A form \in AllForms :
          (FirstViolated(form) # "none" /\ StartConversion(form)) =>
              /\ log_text' = Append(log_text, Line(FirstViolated(form), NoName))
              /\ workers' = workers
              /\ queue' = queue
              /\ start_btn'
              /\ progress_bar' = progress_bar]_vars

\* C7: for an image whose longest side exceeds the target size, the longest
\* side of the new size is the target size or one pixel less, and each side is
\* within one pixel of side * target / longest side.
C7_AspectRatio ==
    (probe.op = "resize" /\ probe.done) =>
        LET w == probe.width
            h == probe.height
            t == probe.target_size
            m == IF w >= h THEN w ELSE h
            nw == probe.new_size[1]
            nh == probe.new_size[2]
            nm == IF w >= h THEN nw ELSE nh
        IN  m > t =>
              /\ t - 1 <= nm /\ nm <= t
              /\ nw * m <= w * t /\ w * t <= (nw + 1) * m
              /\ nh * m <= h * t /\ h * t <= (nh + 1) * m
              /\ nw <= nm /\ nh <= nm

\* C7 witness: an image resized where the rounding of the ratio shows: the
\* longest side comes out one pixel below the target size.
C7_Witness ==
    /\ probe.op = "resize" /\ probe.done
    /\ probe.width > probe.target_size
    /\ probe.width >= probe.height
    /\ probe.new_size[1] = probe.target_size - 1
    /\ probe.new_size[2] >= 1

AlphaOrPalette == {"RGBA", "LA", "P", "PA", "RGBa", "La"}

\* C8: for a .jpg or .jpeg output the JPEG encoder is invoked with the
\* requested quality and optimisation on, on an image without alpha or
\* palette, an image that had either having been flattened first; for a .png
\* output the PNG encoder is invoked with optimisation on and no quality.
C8_FlattenBeforeJpeg ==
    (probe.op = "save" /\ probe.done /\ probe.result.save # NoSave) =>
        LET call == probe.result.save
        IN  IF Lower(probe.name.ext) \in {".jpg", ".jpeg"}
            THEN /\ call.format = "JPEG"
                 /\ call.mode \notin AlphaOrPalette
                 /\ probe.img.mode \in AlphaOrPalette => call.flattened
                 /\ call.has_quality /\ call.quality = probe.jpeg_quality
                 /\ call.optimize
            ELSE /\ call.format = "PNG"
                 /\ call.optimize
                 /\ ~call.has_quality

\* C9: a run emits finished at most once, and exactly once by the time run()
\* has ended.
C9_FinishedOnce ==
    \A w \in Slots :
        /\ Len(Finished(w)) <= 1
        /\ workers[w].pc = "done" => Len(Finished(w)) = 1

\* C10: with overwrite off, no file that a run writes is one of the source
\* files it enumerated.
C10_SourceUntouched ==
    \A w \in Slots :
        ~workers[w].overwrite =>
            \A k \in 1..Len(workers[w].saves) :
                workers[w].saves[k].ok =>
                    ~(/\ workers[w].saves[k].dir = workers[w].input_dir
                      /\ \E j \in 1..Len(workers[w].image_files) :
                            workers[w].image_files[j] = workers[w].saves[k].name)

====
